---- MODULE Spec2Model ----
(***************************************************************************)
(* Model of refinem/taxonomic_profile.py: TaxonomicProfile.run drives one  *)
(* Profile per genome through fragmentation, hit ingestion (add_hit),      *)
(* sequence classification (classify_seqs), genome profiling (profile) and *)
(* the report writers.                                                     *)
(*                                                                         *)
(* Encoding of Python values:                                              *)
(*   - a taxon label is an integer: Taxon(r, i) is the i-th label carrying *)
(*     the prefix of rank r, 0 is the string 'unclassified', -1 is None;   *)
(*   - a dict is a function whose DOMAIN is its key set;                   *)
(*   - a HitInfo tuple (evalue, perc_identity, aln_length) is one integer; *)
(*   - an optional list is <<>> for None and <<list>> for a list;          *)
(*   - a relative abundance is kept as its numerator in base pairs, the    *)
(*     denominator being total_bps.                                        *)
(***************************************************************************)
EXTENDS Integers, Sequences, FiniteSets, TLC

\* ------------------------------------------------------------------ bounds
NumRanks == 3
MaxHits == 3
MaxFrags == 6

Ranks == 0 .. (NumRanks - 1)
Genomes == {1, 2}
Seqs == {1, 2}
RefGenomes == {1, 2, 3}
FragCounts == {0, MaxFrags - 1, MaxFrags}

\* self.HitInfo(evalue, perc_identity, aln_length) of a hit: the alignment
\* statistics differ from one reference genome to the other.
HitInfo(ref_genome_id) == ref_genome_id

\* ------------------------------------------------------- labels, taxonomy
unclassified == 0
None == -1
Taxon(r, i) == 2 * r + i
RankOf(t) == (t - 1) \div 2
TaxaAt(r) == {Taxon(r, 1), Taxon(r, 2)}

\* Lineages of the reference genomes: two disjoint lineages, and a third
\* that shares its domain with the first and everything below with the second.
taxonomy ==
  [ref \in RefGenomes |->
     [r \in Ranks |-> Taxon(r, IF ref = 1 THEN 1
                               ELSE IF ref = 2 THEN 2
                               ELSE IF r = 0 THEN 1 ELSE 2)]]

LowerTaxa == {taxonomy[ref][r] : ref \in RefGenomes, r \in Ranks \ {0}}
ParentsSeen(t) ==
  {taxonomy[ref][RankOf(t) - 1] : ref \in {x \in RefGenomes : taxonomy[x][RankOf(t)] = t}}

\* Taxonomy().taxonomic_consistency(taxonomy): each label below the domain is
\* mapped to one of the parents it is seen with.
ExpectedParentMaps ==
  {[t \in LowerTaxa |-> Taxon(RankOf(t) - 1, c[t])] :
     c \in {d \in [LowerTaxa -> {1, 2}] :
              \A t \in LowerTaxa : Taxon(RankOf(t) - 1, d[t]) \in ParentsSeen(t)}}

\* Iteration order of the keys of a dict, per rank.
KeyOrders ==
  [Ranks -> {<<1, 2>>, <<2, 1>>}]

\* The genome files: which sequences each file holds (a file may hold none),
\* and the length in base pairs of each sequence.
SeqLength(seq_id) == seq_id

GenomeInputs ==
  {[g \in Genomes |-> IF g = 1 THEN Seqs ELSE {}],
   [g \in Genomes |-> {g} \cap Seqs]}

VARIABLES
  pc,                     \* position in TaxonomicProfile.run
  genome_files,           \* input: genome id -> sequence ids of its file
  expected_parent,        \* Taxonomy().taxonomic_consistency(self.taxonomy)
  key_order,              \* dict iteration order of the labels of each rank
  profiles,               \* self.profiles: genome id -> Profile
  contig_id_to_genome_id, \* run's local map
  n_hits,                 \* rows of the diamond table read so far
  cur,                    \* genome whose reports are being written (0: none)
  bin_reports,            \* genome id -> state of its two report files
  genome_summary_out,     \* state of genome_summary.tsv
  fault,                  \* exception that ended the run ("none": none)
  seq_assignments,        \* genome id -> last value returned by classify_seqs
  classify_calls,         \* genome id -> number of classify_seqs calls
  abundance,              \* genome id -> last value returned by profile
  genome_profile_out      \* genome id -> rows of its profile table

vars == <<pc, genome_files, expected_parent, key_order, profiles,
          contig_id_to_genome_id, n_hits, cur, bin_reports,
          genome_summary_out, fault, seq_assignments, classify_calls, abundance,
          genome_profile_out>>

EmptyDict == [k \in {} |-> 0]

RECURSIVE SumOver(_, _)
SumOver(S, f) ==
  IF S = {} THEN 0
  ELSE LET x == CHOOSE y \in S : TRUE IN f[x] + SumOver(S \ {x}, f)

\* ------------------------------------------------------------ Profile
\* Profile.__init__
NewProfile ==
  [hits |-> EmptyDict, seq_len |-> EmptyDict, fragments_from_seq |-> EmptyDict]

\* A read that stores the default even when the key is present.
DictGetReset(d, k, default) ==
  (k :> default) @@ d

\* defaultdict.__getitem__: the dict after d[k] has been read.
DictGet(d, k, default) ==
  IF k \in DOMAIN d THEN d ELSE d @@ (k :> default)

\* d[k] = v
DictSet(d, k, v) ==
  (k :> v) @@ d

\* add_hit that keeps a bucket free of duplicates.
add_hit_dedup(p, seq_id, tax_list, info) ==
  LET d == DictGet(p.hits, seq_id, EmptyDict)[seq_id]
      nd == [i \in DOMAIN tax_list |->
               LET di == DictGet(d, i, EmptyDict)[i]
                   bucket == DictGet(di, tax_list[i], <<>>)[tax_list[i]]
               IN DictSet(di, tax_list[i],
                          IF \E j \in DOMAIN bucket : bucket[j] = info
                          THEN bucket ELSE Append(bucket, info))]
  IN [p EXCEPT !.hits = DictSet(p.hits, seq_id, nd @@ d)]

\* Profile.add_hit: one HitInfo appended to the bucket of every rank's label.
add_hit(p, seq_id, tax_list, info) ==
  LET d == DictGet(p.hits, seq_id, EmptyDict)[seq_id]
      nd == [i \in DOMAIN tax_list |->
               LET di == DictGet(d, i, EmptyDict)[i]
                   bucket == DictGet(di, tax_list[i], <<>>)[tax_list[i]]
               IN DictSet(di, tax_list[i], Append(bucket, info))]
  IN [p EXCEPT !.hits = DictSet(p.hits, seq_id, nd @@ d)]

\* ------------------------------------------------------ classify_seqs
\* The threshold with 10% in place of 20%.
MeetsThresholdTenth(count, fragments) ==
  10 * count >= fragments

\* count >= self.percent_to_classify * self.fragments_from_seq[seq_id]
\* (the double product 0.2 * n compares with an integer count exactly as
\* n / 5 does, for every n up to 200000)
MeetsThreshold(count, fragments) ==
  5 * count >= fragments

\* The vote accepted without the parent check.
ConsistentUnchecked(rank, taxa, parent_taxa, ep) ==
  TRUE

\* rank == 0 or expected_parent[taxa] == parent_taxa
Consistent(rank, taxa, parent_taxa, ep) ==
  rank = 0 \/ ep[taxa] = parent_taxa

\* The first key in iteration order, whatever the bucket sizes.
FirstKey(d, order) ==
  order[CHOOSE i \in 1 .. Len(order) :
          order[i] \in DOMAIN d /\ \A j \in 1 .. (i - 1) : order[j] \notin DOMAIN d]

\* max(rank_hits[rank], key=lambda x: len(rank_hits[rank][x])): the first key,
\* in iteration order, whose bucket is longest.
MaxKey(d, order) ==
  LET best(i) == /\ order[i] \in DOMAIN d
                 /\ \A k \in DOMAIN d : Len(d[k]) <= Len(d[order[i]])
      idx == CHOOSE i \in 1 .. Len(order) :
               best(i) /\ \A j \in 1 .. (i - 1) : ~best(j)
  IN order[idx]

LabelOrder(ko, rank) ==
  [i \in 1 .. Len(ko[rank]) |-> Taxon(rank, ko[rank][i])]

\* [taxa, rank_hits[rank][taxa]] and [self.unclassified, None]
Entry(taxa, bucket) == [taxa |-> taxa, hit_info |-> <<bucket>>]
UnclassifiedEntry == [taxa |-> unclassified, hit_info |-> <<>>]

\* Only the failing rank set to unclassified.
CollapseOneRank(assign, rank) ==
  (rank :> UnclassifiedEntry) @@ assign

\* for r in xrange(rank, len(self.rank_prefixes)): ... = [unclassified, None]
Collapse(assign, rank) ==
  [r \in rank .. (NumRanks - 1) |-> UnclassifiedEntry] @@ assign

\* The rank loop of classify_seqs for one sequence. The value is the
\* sequence's entry of seq_assignments, rank_hits after the reads, and
\* whether max() raised ValueError on an empty dict.
RECURSIVE ClassifyRanks(_, _, _, _, _, _, _)
ClassifyRanks(rank, parent_taxa, assign, rank_hits, fragments, ep, ko) ==
  IF rank = NumRanks
  THEN [assign |-> assign, rank_hits |-> rank_hits, raised |-> FALSE]
  ELSE
    LET rh == DictGet(rank_hits, rank, EmptyDict)
    IN IF DOMAIN rh[rank] = {}
       THEN [assign |-> assign, rank_hits |-> rh, raised |-> TRUE]
       ELSE
         LET taxa == MaxKey(rh[rank], LabelOrder(ko, rank))
             count == Len(rh[rank][taxa])
         IN IF MeetsThreshold(count, fragments)
            THEN IF Consistent(rank, taxa, parent_taxa, ep)
                 THEN ClassifyRanks(rank + 1, taxa,
                                    DictSet(assign, rank, Entry(taxa, rh[rank][taxa])),
                                    rh, fragments, ep, ko)
                 ELSE ClassifyRanks(rank + 1, parent_taxa, assign, rh,
                                    fragments, ep, ko)
            ELSE [assign |-> Collapse(assign, rank), rank_hits |-> rh,
                  raised |-> FALSE]

\* The loop over the sequences without hits left out.
NoHitsSkipped(assignments, seq_len) ==
  assignments

\* "identify sequences with no hits": every recorded sequence without an
\* entry gets [unclassified, None] at every rank.
NoHits(assignments, seq_len) ==
  [s \in DOMAIN seq_len \ DOMAIN assignments |-> Collapse(EmptyDict, 0)] @@ assignments

\* classify_seqs, from the outcome of the rank loop of every sequence with
\* hits: the returned seq_assignments, self.hits after the call, and the
\* exception raised ("none": the call returned).
ClassifyOutcome(p, per) ==
  [ret |-> NoHits([s \in {x \in DOMAIN per : DOMAIN per[x].assign # {}} |-> per[s].assign],
                  p.seq_len),
   hits |-> [s \in DOMAIN per |-> per[s].rank_hits],
   exc |-> IF \E s \in DOMAIN per : per[s].raised THEN "ValueError" ELSE "none"]

\* Profile.classify_seqs
classify_seqs(p, ep, ko) ==
  IF \E s \in DOMAIN p.hits : s \notin DOMAIN p.fragments_from_seq
  THEN [ret |-> EmptyDict, hits |-> p.hits, exc |-> "KeyError"]
  ELSE ClassifyOutcome(p,
         EmptyDict @@ [s \in DOMAIN p.hits |->
                         ClassifyRanks(0, None, EmptyDict, p.hits[s],
                                       p.fragments_from_seq[s], ep, ko)])

\* ------------------------------------------------------------ profile
\* taxa, hit_info = data[r] raises ValueError where data[r] is the empty
\* list the defaultdict makes for a rank that was never assigned.
Unpacks(assignments) ==
  \A s \in DOMAIN assignments : \A r \in Ranks : r \in DOMAIN assignments[s]

\* Only the real taxa given an abundance.
LabelsClassified(assignments, r) ==
  {assignments[s][r].taxa : s \in DOMAIN assignments} \ {unclassified}

\* the keys of profile[r]: the label of every sequence at rank r
Labels(assignments, r) ==
  {assignments[s][r].taxa : s \in DOMAIN assignments}

\* Profile.profile, given the value classify_seqs returned: profile[r][taxa]
\* (numerator, in base pairs, of the relative abundance) and stats[r][taxa].
profile(p, assignments) ==
  LET total_bps == SumOver(DOMAIN p.seq_len, p.seq_len)
      taxa_at(r) == Labels(assignments, r)
      with(r, t) == {s \in DOMAIN assignments : assignments[s][r].taxa = t}
      bps(r, t) == SumOver(with(r, t), p.seq_len)
  IN IF ~Unpacks(assignments)
     THEN [exc |-> "ValueError"]
     ELSE IF total_bps = 0 /\ DOMAIN assignments # {}
     THEN [exc |-> "ZeroDivisionError"]
     ELSE [exc |-> "none",
           total_bps |-> total_bps,
           profile |-> [r \in Ranks |-> [t \in taxa_at(r) |-> bps(r, t)]],
           stats |-> [r \in Ranks |->
                        [t \in taxa_at(r) \cup {unclassified} |->
                           [num_seqs |-> Cardinality(with(r, t)),
                            num_basepairs |-> bps(r, t)]]]]

\* ------------------------------------------------------------ reports
\* Profile.write_seq_summary, after classify_seqs returned: the exception
\* raised while the rows are written ("none": every row was written).
SeqSummaryRows(p, assignments) ==
  IF ~Unpacks(assignments) THEN "ValueError"
  ELSE IF \E s \in DOMAIN assignments, r \in Ranks :
            /\ assignments[s][r].taxa # unclassified
            /\ p.fragments_from_seq[s] = 0
  THEN "ZeroDivisionError"
  ELSE "none"

\* Profile.write_genome_summary, after profile returned: max() over an
\* empty profile[r] raises ValueError.
GenomeSummaryRow(ab) ==
  IF \E r \in Ranks : DOMAIN ab.profile[r] = {} THEN "ValueError" ELSE "none"

\* write_genome_profile: sorted(profile[r].items(), key=itemgetter(1)),
\* reversed: the (taxa, percent) pairs of a rank by descending abundance.
SortedProfile(pr) ==
  LET n == Cardinality(DOMAIN pr)
      q == CHOOSE f \in [1 .. n -> DOMAIN pr] :
             /\ \A i, j \in 1 .. n : i < j => f[i] # f[j] /\ pr[f[i]] >= pr[f[j]]
  IN [i \in 1 .. n |-> [taxa |-> q[i], percent |-> pr[q[i]]]]

\* max_taxa: "if len(sorted_profiles) > max_taxa" compares the number of
\* ranks stored in the dict sorted_profiles so far, r + 1 at rank r.
MaxTaxa(sorted_profiles) ==
  LET lens == {Cardinality({q \in DOMAIN sorted_profiles : q <= r}) : r \in Ranks}
  IN CHOOSE m \in lens \cup {0} : \A n \in lens \cup {0} : n <= m

\* write_genome_profile, the table after the header: row i holds, for each
\* rank, the i-th pair of the rank (<<pair>>) or empty cells (<<>>).
GenomeProfileRows(ab) ==
  LET sorted_profiles == [r \in Ranks |-> SortedProfile(ab.profile[r])]
  IN [i \in 1 .. MaxTaxa(sorted_profiles) |->
        [r \in Ranks |-> IF Len(sorted_profiles[r]) > i - 1
                         THEN <<sorted_profiles[r][i]>> ELSE <<>>]]

\* --------------------------------------------------- calls made by run
\* The part of the state a Profile method call reads and writes.
Heap ==
  [profiles |-> profiles, seq_assignments |-> seq_assignments,
   classify_calls |-> classify_calls, abundance |-> abundance, exc |-> "none"]

Returned(st, g, c) ==
  [st EXCEPT !.profiles[g].hits = c.hits,
             !.classify_calls[g] = @ + 1,
             !.seq_assignments = IF c.exc = "none" THEN DictSet(@, g, c.ret) ELSE @,
             !.exc = c.exc]

\* self.profiles[g].classify_seqs()
CallClassify(st, g) ==
  Returned(st, g, classify_seqs(st.profiles[g], expected_parent, key_order))

Profiled(s1, g, ab) ==
  [s1 EXCEPT !.abundance = IF ab.exc = "none" THEN DictSet(@, g, ab) ELSE @,
             !.exc = ab.exc]

AfterClassify(s1, g) ==
  IF s1.exc # "none" THEN s1
  ELSE Profiled(s1, g, profile(s1.profiles[g], s1.seq_assignments[g]))

\* self.profiles[g].profile()
CallProfile(st, g) ==
  AfterClassify(CallClassify(st, g), g)

AfterProfile(s1, g) ==
  IF s1.exc # "none" THEN s1
  ELSE [s1 EXCEPT !.exc = GenomeSummaryRow(s1.abundance[g])]

\* self.profiles[g].write_genome_summary(fout)
CallGenomeSummary(st, g) ==
  AfterProfile(CallProfile(st, g), g)

NextGenome(s1, g) ==
  IF s1.exc # "none" THEN s1 ELSE CallGenomeSummary(s1, g)

\* _write_genome_summary: the loop over the sorted genome ids
SummaryLoop(st) ==
  NextGenome(CallGenomeSummary(st, 1), 2)

Store(st) ==
  /\ profiles' = st.profiles
  /\ seq_assignments' = st.seq_assignments
  /\ classify_calls' = st.classify_calls
  /\ abundance' = st.abundance
  /\ fault' = st.exc

\* Hits still read while the reports are written.
CanIngestLate(p) ==
  p \in {"ingest", "report"}

\* hits are read from the table only while _taxonomic_profiles runs
CanIngest(p) ==
  p = "ingest"

\* -------------------------------------------------------------- actions
Init ==
  /\ pc = "fragment"
  /\ genome_files \in GenomeInputs
  /\ expected_parent \in ExpectedParentMaps
  /\ key_order \in KeyOrders
  /\ profiles = EmptyDict
  /\ contig_id_to_genome_id = EmptyDict
  /\ n_hits = 0
  /\ cur = 0
  /\ bin_reports = [g \in Genomes |-> [sequences |-> "absent", profile |-> "absent"]]
  /\ genome_summary_out = "absent"
  /\ fault = "none"
  /\ seq_assignments = EmptyDict
  /\ classify_calls = [g \in Genomes |-> 0]
  /\ abundance = EmptyDict
  /\ genome_profile_out = [g \in Genomes |-> <<>>]

\* run, one iteration of "for genome_file in genome_files": a new Profile,
\* then _fragment_genomes, which records a sequence's fragment count and
\* length once per fragment (so never for a sequence without fragments).
FragmentGenome ==
  /\ pc = "fragment"
  /\ \E g \in Genomes \ DOMAIN profiles :
       /\ \A h \in Genomes : h < g => h \in DOMAIN profiles
       /\ \E fragments \in [genome_files[g] -> FragCounts] :
            LET recorded == {s \in genome_files[g] : fragments[s] > 0}
            IN profiles' = DictSet(profiles, g,
                 [NewProfile EXCEPT
                    !.fragments_from_seq = [s \in recorded |-> fragments[s]],
                    !.seq_len = [s \in recorded |-> SeqLength(s)]])
       /\ contig_id_to_genome_id' =
            [s \in genome_files[g] |-> g] @@ contig_id_to_genome_id
  /\ UNCHANGED <<pc, genome_files, expected_parent, key_order, n_hits, cur,
                 bin_reports, genome_summary_out, fault, seq_assignments,
                 classify_calls, abundance, genome_profile_out>>

\* run: diamond.blastx and diamond.view over the fragments of every genome
RunDiamond ==
  /\ pc = "fragment"
  /\ DOMAIN profiles = Genomes
  /\ pc' = "ingest"
  /\ UNCHANGED <<genome_files, expected_parent, key_order, profiles,
                 contig_id_to_genome_id, n_hits, cur, bin_reports,
                 genome_summary_out, fault, seq_assignments, classify_calls,
                 abundance, genome_profile_out>>

\* _taxonomic_profiles, one iteration of "for hit in read_hit(table)": the
\* query is a fragment of a sequence that has fragments.
IngestHit ==
  /\ CanIngest(pc)
  /\ n_hits < MaxHits
  /\ \E contig_id \in DOMAIN contig_id_to_genome_id, ref_genome_id \in RefGenomes :
       LET genome_id == contig_id_to_genome_id[contig_id]
       IN /\ contig_id \in DOMAIN profiles[genome_id].fragments_from_seq
          /\ profiles' = [profiles EXCEPT ![genome_id] =
               add_hit(@, contig_id, taxonomy[ref_genome_id],
                       HitInfo(ref_genome_id))]
  /\ n_hits' = n_hits + 1
  /\ UNCHANGED <<pc, genome_files, expected_parent, key_order,
                 contig_id_to_genome_id, cur, bin_reports, genome_summary_out,
                 fault, seq_assignments, classify_calls, abundance,
                 genome_profile_out>>

\* _taxonomic_profiles returns at the end of the table
EndIngest ==
  /\ pc = "ingest"
  /\ pc' = "report"
  /\ UNCHANGED <<genome_files, expected_parent, key_order, profiles,
                 contig_id_to_genome_id, n_hits, cur, bin_reports,
                 genome_summary_out, fault, seq_assignments, classify_calls,
                 abundance, genome_profile_out>>

\* write_seq_summary after its classify_seqs call: st.opened tells whether
\* the file was opened, st.exc what was raised.
SeqSummaryCall(s1, g) ==
  IF s1.exc # "none"
  THEN [s1 EXCEPT !.exc = [opened |-> FALSE, exc |-> s1.exc]]
  ELSE [s1 EXCEPT !.exc = [opened |-> TRUE,
          exc |-> SeqSummaryRows(s1.profiles[g], s1.seq_assignments[g])]]

SeqSummaryDone(g, st) ==
  /\ Store([st EXCEPT !.exc = st.exc.exc])
  /\ bin_reports' = [bin_reports EXCEPT ![g].sequences =
       IF ~st.exc.opened THEN "absent"
       ELSE IF st.exc.exc # "none" THEN "partial" ELSE "complete"]
  /\ pc' = IF st.exc.exc # "none" THEN "failed" ELSE pc
  /\ cur' = IF st.exc.exc # "none" THEN cur ELSE g

GenomeProfileDone(g, st) ==
  /\ Store(st)
  /\ genome_profile_out' = [genome_profile_out EXCEPT ![g] =
       IF st.exc # "none" THEN <<>> ELSE GenomeProfileRows(st.abundance[g])]
  /\ bin_reports' = [bin_reports EXCEPT ![g].profile =
       IF st.exc # "none" THEN "partial" ELSE "complete"]
  /\ pc' = IF st.exc # "none" THEN "failed" ELSE pc

GenomeSummaryDone(st) ==
  /\ Store(st)
  /\ genome_summary_out' = IF st.exc # "none" THEN "partial" ELSE "complete"
  /\ pc' = IF st.exc # "none" THEN "failed" ELSE "krona"

\* run, "for genome_id, profile in self.profiles.iteritems()", first half:
\* profile.write_seq_summary classifies, then opens the file and writes rows.
WriteSeqSummary(g) ==
  /\ pc = "report"
  /\ cur = 0
  /\ bin_reports[g].sequences = "absent"
  /\ SeqSummaryDone(g, SeqSummaryCall(CallClassify(Heap, g), g))
  /\ UNCHANGED <<genome_files, expected_parent, key_order,
                 contig_id_to_genome_id, n_hits, genome_summary_out,
                 genome_profile_out>>

\* second half: profile.write_genome_profile opens the file, writes the
\* header, then calls profile() and writes the table.
WriteGenomeProfile(g) ==
  /\ pc = "report"
  /\ cur = g
  /\ GenomeProfileDone(g, CallProfile(Heap, g))
  /\ cur' = 0
  /\ UNCHANGED <<genome_files, expected_parent, key_order,
                 contig_id_to_genome_id, n_hits, genome_summary_out>>

\* run: _write_genome_summary, one row per genome in sorted order
WriteGenomeSummary ==
  /\ pc = "report"
  /\ cur = 0
  /\ \A g \in Genomes : bin_reports[g].profile = "complete"
  /\ GenomeSummaryDone(SummaryLoop(Heap))
  /\ UNCHANGED <<genome_files, expected_parent, key_order,
                 contig_id_to_genome_id, n_hits, cur, bin_reports,
                 genome_profile_out>>

\* run, Krona loop: profile.classify_seqs(taxonomy) passes an argument that
\* classify_seqs(self) does not take, so the first call raises TypeError.
KronaProfiles ==
  /\ pc = "krona"
  /\ pc' = "failed"
  /\ fault' = "TypeError"
  /\ UNCHANGED <<genome_files, expected_parent, key_order, profiles,
                 contig_id_to_genome_id, n_hits, cur, bin_reports,
                 genome_summary_out, seq_assignments, classify_calls, abundance,
                 genome_profile_out>>

Next ==
  \/ FragmentGenome
  \/ RunDiamond
  \/ IngestHit
  \/ EndIngest
  \/ \E g \in Genomes : WriteSeqSummary(g)
  \/ \E g \in Genomes : WriteGenomeProfile(g)
  \/ WriteGenomeSummary
  \/ KronaProfiles

Spec == Init /\ [][Next]_vars

\* =============================================================== claims
Classified == DOMAIN seq_assignments
Hits(g, s, r, t) == profiles[g].hits[s][r][t]
IsReal(e) == e.taxa # unclassified

\* C1: in every value classify_seqs returned, for every sequence and rank r,
\* an "unclassified" entry at rank r means that every rank r2 > r holds an
\* entry and that entry is "unclassified" too.
MonotonicCollapse ==
  \A g \in Classified : \A s \in DOMAIN seq_assignments[g] :
    \A r \in DOMAIN seq_assignments[g][s] :
      ~IsReal(seq_assignments[g][s][r]) =>
        \A r2 \in Ranks :
          r2 > r => /\ r2 \in DOMAIN seq_assignments[g][s]
                    /\ ~IsReal(seq_assignments[g][s][r2])

\* a sequence with hits accepted at rank 0 and collapsed at rank 1
MonotonicCollapseWitness ==
  \E g \in Classified : \E s \in DOMAIN profiles[g].hits :
    /\ {0, 1} \subseteq DOMAIN seq_assignments[g][s]
    /\ IsReal(seq_assignments[g][s][0])
    /\ ~IsReal(seq_assignments[g][s][1])

\* C2: a real taxon T is assigned to a sequence at rank r only if the bucket
\* (sequence, r, T) of the hit table holds at least 20% of the sequence's
\* fragment count: 5 * support >= fragments_from_seq.
Threshold ==
  \A g \in Classified : \A s \in DOMAIN seq_assignments[g] :
    \A r \in DOMAIN seq_assignments[g][s] :
      IsReal(seq_assignments[g][s][r]) =>
        /\ s \in DOMAIN profiles[g].hits
        /\ 5 * Len(Hits(g, s, r, seq_assignments[g][s][r].taxa))
             >= profiles[g].fragments_from_seq[s]

\* a taxon assigned with exactly 20% support, most fragments being unhit,
\* beside a sequence whose best bucket is below 20%
ThresholdWitness ==
  \E g \in Classified : \E s \in DOMAIN seq_assignments[g] :
    /\ IsReal(seq_assignments[g][s][0])
    /\ 5 * Len(Hits(g, s, 0, seq_assignments[g][s][0].taxa))
         = profiles[g].fragments_from_seq[s]
    /\ \E g2 \in Classified : \E s2 \in DOMAIN profiles[g2].hits :
         ~IsReal(seq_assignments[g2][s2][0])

\* C3: a real taxon T assigned at a rank r > 0 has expected_parent[T] equal
\* to the taxon assigned to the same sequence at rank r - 1.
Consistency ==
  \A g \in Classified : \A s \in DOMAIN seq_assignments[g] :
    \A r \in DOMAIN seq_assignments[g][s] :
      (r > 0 /\ IsReal(seq_assignments[g][s][r])) =>
        /\ (r - 1) \in DOMAIN seq_assignments[g][s]
        /\ expected_parent[seq_assignments[g][s][r].taxa]
             = seq_assignments[g][s][r - 1].taxa

\* a sequence assigned real taxa down to the last rank, with two labels
\* voted for at that rank
ConsistencyWitness ==
  \E g \in Classified : \E s \in DOMAIN profiles[g].hits :
    /\ (NumRanks - 1) \in DOMAIN seq_assignments[g][s]
    /\ IsReal(seq_assignments[g][s][NumRanks - 1])
    /\ Cardinality(DOMAIN profiles[g].hits[s][0]) = 2

\* C4: every recorded sequence has, in the value classify_seqs returned, an
\* entry at each rank, either (real taxon, non-empty list) or
\* ("unclassified", None).
FullResultArray ==
  \A g \in Classified :
    /\ DOMAIN seq_assignments[g] = DOMAIN profiles[g].seq_len
    /\ \A s \in DOMAIN seq_assignments[g] : \A r \in Ranks :
         /\ r \in DOMAIN seq_assignments[g][s]
         /\ \/ seq_assignments[g][s][r] = UnclassifiedEntry
            \/ /\ IsReal(seq_assignments[g][s][r])
               /\ Len(seq_assignments[g][s][r].hit_info) = 1
               /\ Len(seq_assignments[g][s][r].hit_info[1]) > 0

\* C5: a recorded sequence for which no hit was added is "unclassified" with
\* None at every rank, and the classification that returns it did not raise.
ZeroHitSequences ==
  \A g \in Genomes :
    classify_calls[g] > 0 =>
      /\ g \in Classified
      /\ \A s \in DOMAIN profiles[g].seq_len \ DOMAIN profiles[g].hits :
           /\ s \in DOMAIN seq_assignments[g]
           /\ seq_assignments[g][s] = [r \in Ranks |-> UnclassifiedEntry]

\* a genome classified with one sequence without hits and one with hits
ZeroHitSequencesWitness ==
  \E g \in Classified :
    /\ DOMAIN profiles[g].seq_len \ DOMAIN profiles[g].hits # {}
    /\ DOMAIN profiles[g].hits # {}

GenomeBps(g) == SumOver(DOMAIN profiles[g].seq_len, profiles[g].seq_len)
RankBps(g, r) == SumOver(DOMAIN abundance[g].profile[r], abundance[g].profile[r])
RankSeqs(g, r) ==
  SumOver(DOMAIN abundance[g].stats[r],
          [t \in DOMAIN abundance[g].stats[r] |-> abundance[g].stats[r][t].num_seqs])

\* C6, as stated: for every genome and rank, the relative abundances that
\* profile returned sum to 1 (the base pairs of the labels add up to the
\* genome's total, which is not zero).
AbundanceSumsToOne ==
  \A g \in DOMAIN abundance : \A r \in Ranks :
    /\ GenomeBps(g) > 0
    /\ RankBps(g, r) = GenomeBps(g)

\* C6, amended: for every genome with at least one recorded sequence and
\* every rank, the relative abundances that profile returned sum to 1, each
\* recorded sequence being counted under exactly one label.
AbundanceSumsToOneNonEmpty ==
  \A g \in DOMAIN abundance :
    DOMAIN profiles[g].seq_len # {} =>
      \A r \in Ranks :
        /\ GenomeBps(g) > 0
        /\ RankBps(g, r) = GenomeBps(g)
        /\ RankSeqs(g, r) = Cardinality(DOMAIN profiles[g].seq_len)

\* a profile of two sequences, one classified and one unclassified at rank 0
AbundanceWitness ==
  \E g \in DOMAIN abundance :
    /\ Cardinality(DOMAIN profiles[g].seq_len) = 2
    /\ Cardinality(DOMAIN abundance[g].profile[0]) = 2
    /\ unclassified \in DOMAIN abundance[g].profile[0]

\* C7: a classify_seqs call leaves the Profile it reads unchanged, and a
\* call on a Profile classified before returns the value returned before.
Idempotence ==
  [][\A g \in Genomes :
       classify_calls'[g] > classify_calls[g] =>
         /\ profiles'[g] = profiles[g]
         /\ g \in Classified =>
              /\ g \in DOMAIN seq_assignments'
              /\ seq_assignments'[g] = seq_assignments[g]]_vars

\* a Profile with hits classified twice, with a real taxon in the result
IdempotenceWitness ==
  \E g \in Classified :
    /\ classify_calls[g] >= 2
    /\ \E s \in DOMAIN profiles[g].hits : IsReal(seq_assignments[g][s][0])

\* C8: a sequence of a genome file that yields no fragment is, in the value
\* classify_seqs returned for its genome, "unclassified" at every rank, and
\* no division by zero is raised.
ZeroFragments ==
  /\ fault # "ZeroDivisionError"
  /\ \A g \in Classified : \A s \in genome_files[g] :
       (s \notin DOMAIN profiles[g].fragments_from_seq
          \/ profiles[g].fragments_from_seq[s] = 0) =>
         /\ s \in DOMAIN seq_assignments[g]
         /\ seq_assignments[g][s] = [r \in Ranks |-> UnclassifiedEntry]

ReportsComplete(g) ==
  bin_reports[g].sequences = "complete" /\ bin_reports[g].profile = "complete"
ReportsAbsent(g) ==
  bin_reports[g].sequences = "absent" /\ bin_reports[g].profile = "absent"

\* C9: when the run has failed, either the report files of every genome are
\* complete or no report file of any genome has been written.
AllOrNothing ==
  pc = "failed" =>
    \/ \A g \in Genomes : ReportsComplete(g)
    \/ \A g \in Genomes : ReportsAbsent(g)

\* C10: once classify_seqs has been called on a genome's Profile, no step
\* adds a hit to that Profile.
IngestionBarrier ==
  [][\A g \in Genomes :
       classify_calls[g] > 0 => profiles'[g].hits = profiles[g].hits]_vars

\* a Profile holding every hit of the table has been classified
IngestionBarrierWitness ==
  \E g \in Genomes :
    /\ classify_calls[g] > 0
    /\ n_hits = MaxHits
    /\ \E s \in DOMAIN profiles[g].hits :
         /\ Taxon(0, 1) \in DOMAIN profiles[g].hits[s][0]
         /\ Len(Hits(g, s, 0, Taxon(0, 1))) = MaxHits

\* The vote of classify_seqs at rank r for sequence s of genome g.
Candidate(g, s, r) == MaxKey(profiles[g].hits[s][r], LabelOrder(key_order, r))

\* Rank r is the first rank of the sequence at which the vote meets the
\* threshold while its expected parent is not the taxon accepted at r - 1.
FirstInconsistent(g, s, r) ==
  /\ r > 0
  /\ \A q \in 0 .. (r - 1) :
       /\ q \in DOMAIN seq_assignments[g][s]
       /\ IsReal(seq_assignments[g][s][q])
  /\ MeetsThreshold(Len(Hits(g, s, r, Candidate(g, s, r))),
                    profiles[g].fragments_from_seq[s])
  /\ expected_parent[Candidate(g, s, r)] # seq_assignments[g][s][r - 1].taxa

\* C11: when at a rank r > 0 the vote meets the threshold but its expected
\* parent differs from the taxon accepted at rank r - 1, the value
\* classify_seqs returned holds "unclassified" with no statistics at every
\* rank r..N-1 of the sequence, and the calls of ranks 0..r-1 are the votes
\* of those ranks with their buckets.
InconsistencyCollapse ==
  \A g \in Classified : \A s \in DOMAIN seq_assignments[g] \cap DOMAIN profiles[g].hits :
    \A r \in Ranks :
      FirstInconsistent(g, s, r) =>
        /\ \A r2 \in r .. (NumRanks - 1) :
             /\ r2 \in DOMAIN seq_assignments[g][s]
             /\ seq_assignments[g][s][r2] = UnclassifiedEntry
        /\ \A q \in 0 .. (r - 1) :
             seq_assignments[g][s][q] =
               Entry(Candidate(g, s, q), Hits(g, s, q, Candidate(g, s, q)))

\* C12: a real taxon T assigned to a sequence at rank r is a label of the
\* sequence's hit table at rank r, no label of that rank has a longer bucket
\* than T, and the statistics recorded with T are the bucket (sequence, r, T).
MajorityVote ==
  \A g \in Classified : \A s \in DOMAIN seq_assignments[g] :
    \A r \in DOMAIN seq_assignments[g][s] :
      IsReal(seq_assignments[g][s][r]) =>
        /\ s \in DOMAIN profiles[g].hits
        /\ seq_assignments[g][s][r].taxa \in DOMAIN profiles[g].hits[s][r]
        /\ \A t \in DOMAIN profiles[g].hits[s][r] :
             Len(Hits(g, s, r, t)) <= Len(Hits(g, s, r, seq_assignments[g][s][r].taxa))
        /\ seq_assignments[g][s][r].hit_info
             = <<Hits(g, s, r, seq_assignments[g][s][r].taxa)>>

\* a taxon assigned at rank 0 with two different triples, against another
\* label of that rank with one
MajorityVoteWitness ==
  \E g \in Classified : \E s \in DOMAIN profiles[g].hits :
    /\ 0 \in DOMAIN seq_assignments[g][s]
    /\ IsReal(seq_assignments[g][s][0])
    /\ Len(seq_assignments[g][s][0].hit_info[1]) = 2
    /\ seq_assignments[g][s][0].hit_info[1][1] # seq_assignments[g][s][0].hit_info[1][2]
    /\ \E t \in DOMAIN profiles[g].hits[s][0] : Len(Hits(g, s, 0, t)) = 1

\* The bucket (s, r, t) of genome g's hit table in P; empty when absent.
Bucket(P, g, s, r, t) ==
  IF g \in DOMAIN P /\ s \in DOMAIN P[g].hits /\ r \in DOMAIN P[g].hits[s]
     /\ t \in DOMAIN P[g].hits[s][r]
  THEN P[g].hits[s][r][t] ELSE <<>>

AllTaxa == UNION {TaxaAt(r) : r \in Ranks}

\* Number of triples held at rank r for sequence s of genome g's hit table.
RankTotal(g, s, r) ==
  IF r \in DOMAIN profiles[g].hits[s]
  THEN SumOver(DOMAIN profiles[g].hits[s][r],
               [t \in DOMAIN profiles[g].hits[s][r] |-> Len(Hits(g, s, r, t))])
  ELSE 0

\* The sequences that have a hit table.
WithHits == {x \in (DOMAIN profiles) \X Seqs : x[2] \in DOMAIN profiles[x[1]].hits}

\* At every rank, a sequence holds as many triples as at rank 0, and all the
\* sequences together hold one triple per hit read.
HitTotals ==
  \A r \in Ranks :
    /\ \A x \in WithHits : RankTotal(x[1], x[2], r) = RankTotal(x[1], x[2], 0)
    /\ SumOver(WithHits, [x \in WithHits |-> RankTotal(x[1], x[2], r)]) = n_hits

\* A step that reads a hit appends its triple to the bucket of the lineage's
\* label at every rank of one sequence, and leaves every other bucket as is.
HitStep ==
  n_hits' # n_hits =>
    \E g \in Genomes, s \in Seqs, ref \in RefGenomes :
      \A g2 \in Genomes, s2 \in Seqs, r \in Ranks, t \in AllTaxa :
        Bucket(profiles', g2, s2, r, t) =
          IF g2 = g /\ s2 = s /\ t = taxonomy[ref][r]
          THEN Append(Bucket(profiles, g2, s2, r, t), HitInfo(ref))
          ELSE Bucket(profiles, g2, s2, r, t)

\* C13: each add_hit appends exactly one triple to the bucket
\* (sequence, r, lineage[r]) of every rank r and changes no other bucket,
\* duplicates included; so at every rank the sizes of a sequence's buckets
\* add up to the number of hits added for it.
HitAccumulation ==
  []HitTotals /\ [][HitStep]_vars

\* a bucket holding the same triple twice next to a bucket of another label
HitAccumulationWitness ==
  \E g \in DOMAIN profiles : \E s \in DOMAIN profiles[g].hits :
    \E t \in DOMAIN profiles[g].hits[s][0] :
      /\ Len(Hits(g, s, 0, t)) = 2
      /\ Hits(g, s, 0, t)[1] = Hits(g, s, 0, t)[2]
      /\ Cardinality(DOMAIN profiles[g].hits[s][NumRanks - 1]) = 2

\* The labels written in column r of genome g's table, top to bottom.
Column(g, r) ==
  {genome_profile_out[g][i][r][1].taxa :
     i \in {j \in DOMAIN genome_profile_out[g] : genome_profile_out[g][j][r] # <<>>}}

TaxaFound(g, r) == Cardinality(DOMAIN abundance[g].profile[r])

\* C14: the table write_genome_profile wrote holds, for every rank, every
\* label with an abundance at that rank, once each, by descending abundance
\* and followed by empty cells only; the number of rows is the largest number
\* of labels found at any rank.
CompleteGenomeTable ==
  \A g \in Genomes :
    bin_reports[g].profile = "complete" =>
      /\ \A r \in Ranks :
           /\ Column(g, r) = DOMAIN abundance[g].profile[r]
           /\ \A i \in DOMAIN genome_profile_out[g] :
                IF i <= TaxaFound(g, r)
                THEN /\ genome_profile_out[g][i][r] # <<>>
                     /\ genome_profile_out[g][i][r][1].percent
                          = abundance[g].profile[r][genome_profile_out[g][i][r][1].taxa]
                     /\ i > 1 => genome_profile_out[g][i - 1][r][1].percent
                                   >= genome_profile_out[g][i][r][1].percent
                ELSE genome_profile_out[g][i][r] = <<>>
      /\ \E r \in Ranks : Len(genome_profile_out[g]) = TaxaFound(g, r)
      /\ \A r \in Ranks : Len(genome_profile_out[g]) >= TaxaFound(g, r)

====
